---- MODULE Spec2Model ----
(***************************************************************************)
(* Incident lifecycle of the SRE dashboard: the incidents table of         *)
(* db_utils.py, the operations that read and write it, and the dashboard   *)
(* handlers of app.py that call them from concurrently running sessions.   *)
(*                                                                         *)
(* A nullable SQL / Python value is modelled as a sequence of length 0     *)
(* (NULL / None) or 1 (the value).  Timestamps are integers counting       *)
(* ticks; TicksPerSecond ticks make one second.                            *)
(*                                                                         *)
(* Each browser session runs the script of app.py in its own thread.  A    *)
(* run loads active_incidents, renders the job rows (check_slow_response   *)
(* for each) and executes at most one handler, which ends the run with     *)
(* st.rerun().  The statements db_utils executes inside "with db_lock"     *)
(* form one step: the statements that run without the lock (the priority   *)
(* UPDATE and those of check_slow_response) write no column the locked     *)
(* statements read, so interleaving them inside the section changes        *)
(* nothing.  The value get_cached_active_incidents() hands a run is what   *)
(* get_active_incidents() returned when the cache entry was filled; the    *)
(* model fills it at the start of the run and lets the run last as long    *)
(* as it likes, which covers every staleness the ttl allows.               *)
(*                                                                         *)
(* RankSpec applies rank_jobs to job lists and tables drawn by its         *)
(* initial predicate.  PageSpec follows the script of one session          *)
(* statement by statement (fetch, rank, check_for_updates, job table and   *)
(* forms) with st.session_state and the st.cache_data entry of the job     *)
(* feed; there the db_utils calls are single steps and the other sessions  *)
(* appear as writes to the incidents table.                                *)
(*                                                                         *)
(* LockSpec adds the other operations of db_utils.py that take db_lock,    *)
(* CallSpec adds calls of log_incident_resolve with any id, and MockSpec   *)
(* is the Flask application of api_mock.py taken request by request.       *)
(***************************************************************************)
EXTENDS Integers, Sequences, FiniteSets, TLC

\* ---------------------------------------------------------------- bounds
NumSessions == 2
MaxTime == 2
MaxIncidents == 2
TicksPerSecond == 2
FastSeconds == 5
SlowSeconds == 25

\* ---------------------------------------------------------------- inputs
Sessions == 1..NumSessions
Jobs == {"Job1", "Job2"}
Engineers == {"Alice", "Bob"}
PRIORITY_LEVELS == <<"P1", "P2", "P3", "P4">>
DEFAULT_PRIORITY == "P3"
RespondPriorities == {DEFAULT_PRIORITY}
EditPriorities == {"P1"}
FeedStatuses == {"Critical", "Warning"}

\* the scopes explored: a race of two responders for one job, two jobs
\* side by side, one incident followed through the clock, and one job over
\* a long wait; clock holds the instants at which datetime.now() is read
Scopes ==
    {[jobs |-> {"Job1"}, engineers |-> Engineers,
      rows |-> MaxIncidents, clock |-> {0}],
     [jobs |-> Jobs, engineers |-> {"Alice"},
      rows |-> MaxIncidents, clock |-> {0}],
     [jobs |-> {"Job1"}, engineers |-> {"Alice"},
      rows |-> MaxIncidents - 1, clock |-> 0..MaxTime],
     [jobs |-> {"Job1"}, engineers |-> {"Alice"},
      rows |-> MaxIncidents, clock |-> {0, SlowSeconds * TicksPerSecond}]}

NULL == <<>>
Some(v) == <<v>>
Val(o) == o[1]

VARIABLES
    scope,             \* the inputs and instants this behaviour explores
    incidents,         \* the incidents table, rows in insertion order
    db_lock,           \* 0 when free, else the session holding db_lock
    now,               \* datetime.now(), in ticks
    active_incidents,  \* per session: the run's get_cached_active_incidents()
    pc,                \* per session: position in the script run
    op,                \* per session: the handler entered by the run
    arg,               \* per session: the handler's arguments
    t,                 \* per session: start_time / end_time read at entry
    existing,          \* per session: result of the open-incident SELECT
    next_id,           \* per session: id computed for the INSERT
    start_time_result, \* per session: result of the resolve SELECT
    incident_id,       \* per session: log_incident_start's return value
    resolved,          \* per session: log_incident_resolve's return value
    is_slow,           \* per session: check_slow_response's return value
    api_err,           \* per session: the notification request raised
    msg,               \* per session: what the handler told its caller
    api_jobs_raw,      \* page run: what fetch_job_status returned
    ranked_jobs,       \* page run: what rank_jobs returned
    page_pc,           \* page run: position in the script
    page_active_incidents, \* page run: get_cached_active_incidents()
    page_msg,          \* page run: what the page told its user
    jobs_cache,        \* st.cache_data entry of fetch_job_status
    last_fetched,      \* the last job list the status API answered
    last_active_incidents, \* st.session_state.last_active_incidents
    last_incident_update,  \* st.session_state.last_incident_update
    show_respond_form, \* st.session_state.show_respond_form
    selected_priority, \* st.session_state.selected_priority
    selected_assignee, \* st.session_state.selected_assignee
    mock_jobs,         \* api_mock.py: the mock_jobs dictionary
    mock_response      \* api_mock.py: what the last request was answered

\* the script run that is followed statement by statement, and the
\* st.session_state and st.cache_data entries it works with
session_state == <<last_active_incidents, last_incident_update,
                   show_respond_form, selected_priority, selected_assignee>>
page == <<api_jobs_raw, ranked_jobs, page_pc, page_active_incidents,
          page_msg, jobs_cache, last_fetched, session_state>>

\* the state of the status feed mock
mock == <<mock_jobs, mock_response>>

vars == <<scope, incidents, db_lock, now, active_incidents, pc, op, arg, t,
          existing, next_id, start_time_result, incident_id, resolved,
          is_slow, api_err, msg, page, mock>>

\* ------------------------------------------------------- incidents table
Row(id, job, status, det, rst, responder, priority) ==
    [incident_id |-> id, job_name |-> job, status_at_incident |-> status,
     detection_time |-> det, response_start_time |-> rst,
     responder_name |-> responder, priority |-> priority,
     resolution_time |-> NULL, resolution_duration_seconds |-> NULL]

RowIdx(rows) == 1..Len(rows)
Ids(rows) == {rows[i].incident_id : i \in RowIdx(rows)}
RowOf(rows, id) == rows[CHOOSE i \in RowIdx(rows) : rows[i].incident_id = id]
IsOpen(r) == r.resolution_time = NULL
OpenRows(rows, job) ==
    {i \in RowIdx(rows) : rows[i].job_name = Some(job) /\ IsOpen(rows[i])}

\* a schema that declares no column NOT NULL
NotNullNone(r) == TRUE

\* NOT NULL columns of CREATE TABLE incidents
NotNullOK(r) ==
    /\ r.job_name # NULL
    /\ r.status_at_incident # NULL
    /\ r.detection_time # NULL
    /\ r.response_start_time # NULL

\* incident_id INTEGER PRIMARY KEY
PrimaryKeyOK(rows, r) == r.incident_id \notin Ids(rows)

ConstraintsOK(rows, r) == NotNullOK(r) /\ PrimaryKeyOK(rows, r)

\* threading.Lock: acquirable only when no session holds it
LockFree(lock) == lock = 0

\* a log_incident_start that does not look for an active incident
SelectActiveNone(rows, job) == NULL

\* a SELECT without "AND resolution_time IS NULL": any incident of the job
SelectActiveAnyRow(rows, job) ==
    IF \A i \in RowIdx(rows) : rows[i].job_name # Some(job) THEN NULL
    ELSE Some(rows[CHOOSE i \in RowIdx(rows) :
                     rows[i].job_name = Some(job)].incident_id)

\* SELECT incident_id FROM incidents WHERE job_name = ? AND
\* resolution_time IS NULL  ... fetchone()
SelectActive(rows, job) ==
    IF OpenRows(rows, job) = {} THEN NULL
    ELSE Some(rows[CHOOSE i \in OpenRows(rows, job) :
                     \A k \in OpenRows(rows, job) : i <= k].incident_id)

\* SELECT COALESCE(MAX(incident_id), 0) FROM incidents, plus one
MaxOf(S) == CHOOSE m \in S : \A x \in S : x <= m

\* an id taken below the smallest one in use
NextIdBelow(rows) ==
    IF Len(rows) = 0 THEN 1
    ELSE (CHOOSE m \in Ids(rows) : \A x \in Ids(rows) : m <= x) - 1

NextId(rows) == IF Len(rows) = 0 THEN 1 ELSE MaxOf(Ids(rows)) + 1

\* a branch that hands the active incident to the new responder
StartExistingReclaim(rows, id, responder, priority, start_time) ==
    [i \in RowIdx(rows) |->
        IF rows[i].incident_id = id
        THEN [rows[i] EXCEPT !.responder_name = responder,
                             !.response_start_time = start_time]
        ELSE rows[i]]

\* the branch taken when an active incident exists: the table is left alone
StartExisting(rows, id, responder, priority, start_time) == rows

\* a return of -1 for an active incident, as the docstring has it
ExistingReturnMinusOne(id) == -1

\* a return of the id an INSERT would have used
ExistingReturnNext(id) == id + 1

\* the value handed back when an active incident exists: existing[0]
ExistingReturn(id) == id

\* a resolve SELECT without "AND resolution_time IS NULL"
SelectForResolveAny(rows, id) ==
    {i \in RowIdx(rows) : rows[i].incident_id = id}

\* SELECT response_start_time, job_name FROM incidents
\* WHERE incident_id = ? AND resolution_time IS NULL
SelectForResolve(rows, id) ==
    {i \in RowIdx(rows) : rows[i].incident_id = id /\ IsOpen(rows[i])}

\* a duration rounded to the nearest second instead of truncated
DurationRounded(end_time, start_time) ==
    (2 * (end_time - start_time) + TicksPerSecond) \div (2 * TicksPerSecond)

\* int((end_time - start_time).total_seconds()): truncation toward zero
Duration(end_time, start_time) ==
    IF end_time >= start_time
    THEN (end_time - start_time) \div TicksPerSecond
    ELSE 0 - ((start_time - end_time) \div TicksPerSecond)

\* a resolve that moves the row out of the table
ResolveArchive(rows, id, end_time, duration) ==
    SelectSeq(rows, LAMBDA r : r.incident_id # id)

\* UPDATE incidents SET resolution_time = ?, resolution_duration_seconds = ?
\* WHERE incident_id = ?
ResolveUpdate(rows, id, end_time, duration) ==
    [i \in RowIdx(rows) |->
        IF rows[i].incident_id = id
        THEN [rows[i] EXCEPT !.resolution_time = Some(end_time),
                             !.resolution_duration_seconds = Some(duration)]
        ELSE rows[i]]

\* UPDATE incidents SET priority = ? WHERE incident_id = ?
PriorityUpdate(rows, id, priority) ==
    [i \in RowIdx(rows) |->
        IF rows[i].incident_id = id
        THEN [rows[i] EXCEPT !.priority = Some(priority)]
        ELSE rows[i]]

\* str(status).strip().lower() in ["critical", "error"]
Lower(status) ==
    CASE status = "Critical" -> "critical"
      [] status = "Error" -> "error"
      [] status = "Warning" -> "warning"
      [] status = "Log" -> "log"
      [] OTHER -> status
IsCriticalOrError(status) == Lower(status) \in {"critical", "error"}

\* a respond action offered whatever the status
is_any_status(status) == TRUE

\* is_critical_or_error = status in ["Critical", "Error"]
is_critical_or_error(status) == status \in {"Critical", "Error"}

\* SELECT detection_time FROM incidents WHERE job_name = ? AND
\* resolution_time IS NULL ORDER BY detection_time DESC LIMIT 1
SelectDetection(rows, job) ==
    IF OpenRows(rows, job) = {} THEN NULL
    ELSE rows[CHOOSE i \in OpenRows(rows, job) :
                \A k \in OpenRows(rows, job) :
                    Val(rows[k].detection_time) <=
                    Val(rows[i].detection_time)].detection_time

\* elapsed_seconds > 20
SLOW_THRESHOLD_SECONDS == 20
IsSlow(current_time, detection_time) ==
    current_time - detection_time > SLOW_THRESHOLD_SECONDS * TicksPerSecond

\* get_active_incidents: open rows ORDER BY response_start_time DESC, folded
\* into a dict keyed by job name (a later row replaces an earlier one)
Info(r) == [incident_id |-> r.incident_id, responder |-> r.responder_name,
            priority |-> r.priority, start_time |-> r.response_start_time]
Older(a, b) ==
    \/ a.response_start_time = NULL
    \/ /\ b.response_start_time # NULL
       /\ Val(a.response_start_time) <= Val(b.response_start_time)
GetActiveIncidents(rows) ==
    [j \in Jobs |->
        IF OpenRows(rows, j) = {} THEN NULL
        ELSE Some(Info(rows[CHOOSE i \in OpenRows(rows, j) :
                    \A k \in OpenRows(rows, j) : Older(rows[i], rows[k])]))]

\* get_incident_history(limit): SELECT ... FROM incidents ORDER BY
\* response_start_time DESC LIMIT {limit}.  The value is the set of row sets
\* the query may return: rows of equal response_start_time come in any order
HistoryLimits == 1..MaxIncidents

\* a query with ORDER BY response_start_time ASC: the oldest rows
GetIncidentHistoryOldest(rows, limit) ==
    {S \in SUBSET RowIdx(rows) :
        /\ Cardinality(S) = IF limit < Len(rows) THEN limit ELSE Len(rows)
        /\ \A i \in S, k \in RowIdx(rows) \ S :
               Val(rows[k].response_start_time)
                   >= Val(rows[i].response_start_time)}

GetIncidentHistory(rows, limit) ==
    {S \in SUBSET RowIdx(rows) :
        /\ Cardinality(S) = IF limit < Len(rows) THEN limit ELSE Len(rows)
        /\ \A i \in S, k \in RowIdx(rows) \ S :
               Val(rows[k].response_start_time)
                   <= Val(rows[i].response_start_time)}

\* the rows of the DataFrame in their order: those of one of the row sets,
\* response_start_time descending
HistoryFrames(rows, limit) ==
    UNION {{h \in [1..Cardinality(S) -> S] :
               /\ \A a, b \in DOMAIN h : a # b => h[a] # h[b]
               /\ \A a, b \in DOMAIN h :
                      a < b => Val(rows[h[a]].response_start_time)
                                 >= Val(rows[h[b]].response_start_time)} :
           S \in GetIncidentHistory(rows, limit)}

NoMsg == [kind |-> "none", who |-> NULL]

\* api_mock.py: an entry of mock_jobs (last_run, which nothing reads, is
\* left out)
MockJob(status, id) == [status |-> status, responding_incident_id |-> id]

\* the status feed mock as far as the dashboard's model looks at it: it
\* has answered no request
MockIdle ==
    /\ mock_jobs = [j \in Jobs |-> MockJob("Log", NULL)]
    /\ mock_response = NULL
NoView == [j \in Jobs |-> NULL]
NoArg == [job |-> NULL, status |-> NULL, responder |-> NULL,
          priority |-> NULL, incident_id |-> NULL]

\* app.py lines 58-89: st.session_state of a new browser session, before
\* the first run of the script; nothing is cached
NewSession ==
    /\ page_pc = "fetch"
    /\ page_active_incidents = NoView
    /\ page_msg = NoMsg
    /\ jobs_cache = NULL
    /\ last_fetched = NULL
    /\ last_active_incidents = NoView
    /\ last_incident_update = 0
    /\ show_respond_form = [j \in Jobs |-> FALSE]
    /\ selected_priority = [j \in Jobs |-> NULL]
    /\ selected_assignee = [j \in Jobs |-> NULL]

\* the script run that is followed in detail has not started
NoPage ==
    /\ api_jobs_raw = NULL
    /\ ranked_jobs = NULL
    /\ NewSession

\* ------------------------------------------------------------------ Init
Init ==
    /\ scope \in Scopes
    /\ incidents = <<>>
    /\ db_lock = 0
    /\ now = 0
    /\ active_incidents = [p \in Sessions |-> NoView]
    /\ pc = [p \in Sessions |-> "render"]
    /\ op = [p \in Sessions |-> "none"]
    /\ arg = [p \in Sessions |-> NoArg]
    /\ t = [p \in Sessions |-> NULL]
    /\ existing = [p \in Sessions |-> NULL]
    /\ next_id = [p \in Sessions |-> NULL]
    /\ start_time_result = [p \in Sessions |-> NULL]
    /\ incident_id = [p \in Sessions |-> -1]
    /\ resolved = [p \in Sessions |-> FALSE]
    /\ is_slow = [p \in Sessions |-> FALSE]
    /\ api_err = [p \in Sessions |-> FALSE]
    /\ msg = [p \in Sessions |-> NoMsg]
    /\ NoPage
    /\ MockIdle

locals == <<op, arg, t, existing, next_id, start_time_result, incident_id,
            resolved, is_slow, api_err, msg>>

\* the locals of a session at the start of a handler
Fresh6(p, name, a, time, m, slow) ==
    /\ op' = [op EXCEPT ![p] = name]
    /\ arg' = [arg EXCEPT ![p] = a]
    /\ t' = [t EXCEPT ![p] = time]
    /\ existing' = [existing EXCEPT ![p] = NULL]
    /\ next_id' = [next_id EXCEPT ![p] = NULL]
    /\ start_time_result' = [start_time_result EXCEPT ![p] = NULL]
    /\ incident_id' = [incident_id EXCEPT ![p] = -1]
    /\ resolved' = [resolved EXCEPT ![p] = FALSE]
    /\ is_slow' = [is_slow EXCEPT ![p] = slow]
    /\ api_err' = [api_err EXCEPT ![p] = FALSE]
    /\ msg' = [msg EXCEPT ![p] = m]

Fresh(p, name, a, time, m) == Fresh6(p, name, a, time, m, FALSE)

\* ---------------------------------------------------------------- clock
Tick ==
    /\ \E x \in scope.clock :
         /\ x > now
         /\ \A y \in scope.clock : y > now => x <= y
         /\ now' = x
    /\ UNCHANGED <<scope, mock, page,
                   incidents, db_lock, active_incidents, pc, locals>>

\* ----------------------------------------------------------- script run
\* The run ends (st.rerun() after a handler, or the end of the script) and
\* the next one starts with active_incidents = get_cached_active_incidents(),
\* an empty dict when the query raises.
Rerun(p) ==
    /\ pc[p] \in {"render", "done"}
    /\ \E fail \in BOOLEAN :
         active_incidents' = [active_incidents EXCEPT ![p] =
             IF fail THEN NoView ELSE GetActiveIncidents(incidents)]
    /\ pc' = [pc EXCEPT ![p] = "render"]
    /\ Fresh(p, "none", NoArg, NULL, NoMsg)
    /\ UNCHANGED <<scope, mock, page, incidents, db_lock, now>>

\* ------------------------------------------- respond / log_incident_start
\* "Confirm Response": the form is rendered for a job whose status is
\* "Critical" or "Error" and that has no entry in the run's
\* active_incidents.  The handler re-reads get_active_incidents() and
\* either warns, naming the responder it read, or
\* calls log_incident_start, which reads start_time before it waits for
\* db_lock.
RespondSubmit(p, job, status, assignee, priority) ==
    /\ pc[p] = "render"
    /\ active_incidents[p][job] = NULL
    /\ is_critical_or_error(status)
    /\ \E fail \in BOOLEAN :
         LET current_active ==
                 IF fail THEN NoView ELSE GetActiveIncidents(incidents)
             a == [NoArg EXCEPT !.job = Some(job), !.status = Some(status),
                                !.responder = Some(assignee),
                                !.priority = Some(priority)]
         IN IF current_active[job] # NULL
            THEN /\ Fresh(p, "respond", a, NULL,
                          [kind |-> "warning",
                           who |-> Val(current_active[job]).responder])
                 /\ pc' = [pc EXCEPT ![p] = "done"]
            ELSE /\ Fresh(p, "respond", a, Some(now), NoMsg)
                 /\ pc' = [pc EXCEPT ![p] = "ls_lock"]
    /\ active_incidents' = [active_incidents EXCEPT ![p] = NoView]
    /\ UNCHANGED <<scope, mock, page, incidents, db_lock, now>>

\* with db_lock: the SELECT for an active incident of the job; when there is
\* one its id is returned and nothing is written; else next_id is computed
\* and the row inserted.  A statement that raises (a constraint, the
\* database) leaves incident_id at -1.  Beyond MaxIncidents rows the INSERT
\* is only let fail.
StartBody(p) ==
    /\ pc[p] = "ls_lock"
    /\ LockFree(db_lock)
    /\ db_lock' = p
    /\ \E fail \in BOOLEAN :
         LET found == SelectActive(incidents, Val(arg[p].job))
             id == NextId(incidents)
             row == Row(id, arg[p].job, arg[p].status, t[p], t[p],
                        arg[p].responder, arg[p].priority)
         IN IF fail
            THEN /\ pc' = [pc EXCEPT ![p] = "ls_exit"]
                 /\ UNCHANGED <<incidents, existing, next_id, incident_id>>
            ELSE IF found # NULL
            THEN /\ existing' = [existing EXCEPT ![p] = found]
                 /\ incidents' = StartExisting(incidents, Val(found),
                          arg[p].responder, arg[p].priority, t[p])
                 /\ incident_id' = [incident_id EXCEPT ![p] =
                          ExistingReturn(Val(found))]
                 /\ pc' = [pc EXCEPT ![p] = "ls_exit"]
                 /\ UNCHANGED next_id
            ELSE /\ Len(incidents) < scope.rows
                 /\ ConstraintsOK(incidents, row)
                 /\ next_id' = [next_id EXCEPT ![p] = Some(id)]
                 /\ incidents' = Append(incidents, row)
                 /\ incident_id' = [incident_id EXCEPT ![p] = id]
                 /\ pc' = [pc EXCEPT ![p] = "ls_notify"]
                 /\ UNCHANGED existing
    /\ t' = [t EXCEPT ![p] = NULL]
    /\ UNCHANGED <<scope, mock, page,
                   now, active_incidents, op, arg, start_time_result,
                   resolved, is_slow, api_err, msg>>

\* a notification failure that reaches the return value
StartAfterNotifyFailed(id, raised) == IF raised THEN -1 ELSE id

\* except Exception as api_err: print(...): incident_id stays as assigned
StartAfterNotify(id, raised) == id

\* requests.post(.../start_response/...) inside its own try: whether it
\* answers or raises, the call goes on; db_lock is held meanwhile
StartNotify(p) ==
    /\ pc[p] = "ls_notify"
    /\ pc' = [pc EXCEPT ![p] = "ls_exit"]
    /\ \E raised \in BOOLEAN :
         /\ api_err' = [api_err EXCEPT ![p] = raised]
         /\ incident_id' = [incident_id EXCEPT ![p] =
                StartAfterNotify(incident_id[p], raised)]
    /\ UNCHANGED <<scope, mock, page,
                   incidents, db_lock, now, active_incidents, op, arg,
                   t, existing, next_id, start_time_result, resolved, is_slow,
                   msg>>

\* finally: conn.close(); db_lock is released; return incident_id.  Then
\* if incident_id != -1: st.success(...) else st.error("Failed to log
\* incident start (already active or DB error).")
StartExit(p) ==
    /\ pc[p] = "ls_exit"
    /\ db_lock' = 0
    /\ pc' = [pc EXCEPT ![p] = "done"]
    /\ msg' = [msg EXCEPT ![p] =
           IF incident_id[p] # -1
           THEN [kind |-> "success", who |-> arg[p].responder]
           ELSE [kind |-> "error", who |-> NULL]]
    /\ UNCHANGED <<scope, mock,
                   page, incidents, now, active_incidents, op, arg, t,
                   existing, next_id, start_time_result, incident_id,
                   resolved, is_slow, api_err>>

\* ------------------------------------------ resolve / log_incident_resolve
\* "Resolve Incident": rendered for a job with an entry in the run's
\* active_incidents; calls log_incident_resolve with that entry's id, which
\* reads end_time before it waits for db_lock.
ResolveClick(p, job) ==
    /\ pc[p] = "render"
    /\ active_incidents[p][job] # NULL
    /\ Fresh(p, "resolve",
             [NoArg EXCEPT !.job = Some(job),
                           !.incident_id =
                               Some(Val(active_incidents[p][job]).incident_id)],
             Some(now), NoMsg)
    /\ pc' = [pc EXCEPT ![p] = "lr_lock"]
    /\ active_incidents' = [active_incidents EXCEPT ![p] = NoView]
    /\ UNCHANGED <<scope, mock, page, incidents, db_lock, now>>

\* with db_lock: the SELECT of the open incident with this id (no row means
\* "not found or already resolved"), then the UPDATE that writes
\* resolution_time and int(duration) in one statement
ResolveBody(p) ==
    /\ pc[p] = "lr_lock"
    /\ LockFree(db_lock)
    /\ db_lock' = p
    /\ \E fail \in BOOLEAN :
         LET id == Val(arg[p].incident_id)
             found == SelectForResolve(incidents, id)
             start_time == incidents[CHOOSE i \in found : TRUE]
                               .response_start_time
         IN IF fail \/ found = {}
            THEN /\ pc' = [pc EXCEPT ![p] = "lr_exit"]
                 /\ UNCHANGED <<incidents, start_time_result, resolved>>
            ELSE /\ start_time_result' =
                        [start_time_result EXCEPT ![p] = start_time]
                 /\ incidents' = ResolveUpdate(incidents, id, Val(t[p]),
                        Duration(Val(t[p]), Val(start_time)))
                 /\ resolved' = [resolved EXCEPT ![p] = TRUE]
                 /\ pc' = [pc EXCEPT ![p] = "lr_notify"]
    /\ UNCHANGED <<scope, mock, page,
                   now, active_incidents, op, arg, t, existing, next_id,
                   incident_id, is_slow, api_err, msg>>

\* except Exception as api_err: print(...): resolved stays True
ResolveAfterNotify(result, raised) == result

\* requests.post(.../resolve_response/...) inside its own try
ResolveNotify(p) ==
    /\ pc[p] = "lr_notify"
    /\ pc' = [pc EXCEPT ![p] = "lr_exit"]
    /\ \E raised \in BOOLEAN :
         /\ api_err' = [api_err EXCEPT ![p] = raised]
         /\ resolved' = [resolved EXCEPT ![p] =
                ResolveAfterNotify(resolved[p], raised)]
    /\ UNCHANGED <<scope, mock, page,
                   incidents, db_lock, now, active_incidents, op, arg,
                   t, existing, next_id, start_time_result, incident_id,
                   is_slow, msg>>

\* finally: conn.close(); db_lock is released; return resolved.  The handler
\* reports success or "Failed to resolve incident (already resolved or DB
\* error)."
ResolveExit(p) ==
    /\ pc[p] = "lr_exit"
    /\ db_lock' = 0
    /\ pc' = [pc EXCEPT ![p] = "done"]
    /\ msg' = [msg EXCEPT ![p] =
           [kind |-> IF resolved[p] THEN "resolved" ELSE "resolve_failed",
            who |-> NULL]]
    /\ UNCHANGED <<scope, mock,
                   page, incidents, now, active_incidents, op, arg, t,
                   existing, next_id, start_time_result, incident_id,
                   resolved, is_slow, api_err>>

\* ------------------------------------------- connection that cannot open
\* with db_lock: conn = get_db_connection() stands before the try of
\* log_incident_start and of log_incident_resolve; when duckdb.connect
\* raises (the database file is locked by another process, or unreadable)
\* no except clause is in reach and no statement of the body runs
ConnectRaises(p) ==
    /\ pc[p] \in {"ls_lock", "lr_lock"}
    /\ LockFree(db_lock)
    /\ db_lock' = p
    /\ pc' = [pc EXCEPT ![p] = "raise"]
    /\ t' = [t EXCEPT ![p] = IF pc[p] = "ls_lock" THEN NULL ELSE @]
    /\ UNCHANGED <<scope, mock, page,
                   incidents, now, active_incidents, op, arg, existing,
                   next_id, start_time_result, incident_id, resolved,
                   is_slow, api_err, msg>>

\* a call that would leave with db_lock taken: acquire() without a
\* release on the path of the exception
RaiseExitHolding(p) ==
    /\ pc[p] = "raise"
    /\ pc' = [pc EXCEPT ![p] = "done"]
    /\ msg' = [msg EXCEPT ![p] = [kind |-> "exception", who |-> NULL]]
    /\ UNCHANGED <<scope, mock,
                   page, incidents, db_lock, now, active_incidents,
                   op, arg, t, existing, next_id, start_time_result,
                   incident_id, resolved, is_slow, api_err>>

\* the with statement releases db_lock while the exception leaves the
\* call; the handler has no try either, so the script run ends with the
\* exception on the page
RaiseExit(p) ==
    /\ pc[p] = "raise"
    /\ db_lock' = 0
    /\ pc' = [pc EXCEPT ![p] = "done"]
    /\ msg' = [msg EXCEPT ![p] = [kind |-> "exception", who |-> NULL]]
    /\ UNCHANGED <<scope, mock,
                   page, incidents, now, active_incidents, op, arg, t,
                   existing, next_id, start_time_result, incident_id,
                   resolved, is_slow, api_err>>

\* ------------------------------------------------------- priority edit
\* the priority form's submit: one UPDATE by the id of the run's
\* active_incidents entry, on its own connection, without db_lock; st.rerun()
\* follows unless the statement raises
PrioritySubmit(p, job, new_priority) ==
    /\ pc[p] = "render"
    /\ active_incidents[p][job] # NULL
    /\ \E fail \in BOOLEAN :
         LET a == [NoArg EXCEPT !.job = Some(job),
                       !.priority = Some(new_priority),
                       !.incident_id =
                           Some(Val(active_incidents[p][job]).incident_id)]
         IN IF fail
            THEN /\ Fresh(p, "priority", NoArg, NULL,
                          [kind |-> "priority_failed", who |-> NULL])
                 /\ UNCHANGED <<incidents, pc>>
            ELSE /\ Fresh(p, "priority", a, NULL,
                          [kind |-> "priority_ok", who |-> NULL])
                 /\ incidents' = PriorityUpdate(incidents,
                        Val(a.incident_id), new_priority)
                 /\ pc' = [pc EXCEPT ![p] = "done"]
    /\ UNCHANGED <<scope, mock, page, db_lock, now, active_incidents>>

\* ------------------------------------------------- check_slow_response
\* called while a row of the job table is rendered, on its own connection
\* and without db_lock: returns False for a status other than Critical or
\* Error and for a job in the run's active_incidents; else the SELECT of the
\* job's open incident decides by elapsed > 20 seconds, or finds no row; a
\* SELECT that raises is caught ("Error checking slow response" is printed)
\* and the check returns False
SlowCheck(p, job, status) ==
    /\ pc[p] = "render"
    /\ LET a == [NoArg EXCEPT !.job = Some(job), !.status = Some(status)]
       IN IF IsCriticalOrError(status) /\ active_incidents[p][job] = NULL
          THEN \E fail \in BOOLEAN :
                 LET result == SelectDetection(incidents, job)
                 IN IF fail
                    THEN /\ Fresh(p, "slow", a, NULL,
                                  [kind |-> "slow_error", who |-> NULL])
                         /\ UNCHANGED pc
                    ELSE IF result # NULL
                    THEN /\ Fresh6(p, "slow", a, NULL, NoMsg,
                                   IsSlow(now, Val(result)))
                         /\ UNCHANGED pc
                    ELSE /\ Fresh(p, "slow", a, NULL, NoMsg)
                         /\ pc' = [pc EXCEPT ![p] = "sl_insert"]
          ELSE /\ Fresh(p, "slow", a, NULL, NoMsg)
               /\ UNCHANGED pc
    /\ UNCHANGED <<scope, mock,
                   page, incidents, db_lock, now, active_incidents>>

\* no incident record exists: current_time is read, next_id computed and
\* INSERT INTO incidents (incident_id, job_name, status_at_incident,
\* detection_time) executed, the other columns being NULL; a constraint
\* violation raises, is caught ("Error checking slow response" is printed),
\* and the check returns False
SlowInsert(p) ==
    /\ pc[p] = "sl_insert"
    /\ pc' = [pc EXCEPT ![p] = "render"]
    /\ LET row == Row(NextId(incidents), arg[p].job, arg[p].status,
                      Some(now), NULL, NULL, NULL)
       IN \E fail \in BOOLEAN :
            IF fail \/ ~ConstraintsOK(incidents, row)
            THEN /\ msg' = [msg EXCEPT ![p] =
                        [kind |-> "slow_error", who |-> NULL]]
                 /\ UNCHANGED incidents
            ELSE /\ Len(incidents) < scope.rows
                 /\ incidents' = Append(incidents, row)
                 /\ UNCHANGED msg
    /\ arg' = [arg EXCEPT ![p] = NoArg]
    /\ UNCHANGED <<scope, mock, page,
                   db_lock, now, active_incidents, op, t, existing,
                   next_id, start_time_result, incident_id, resolved, is_slow,
                   api_err>>

\* ------------------------------------------------------------------ Next
Next ==
    \/ Tick
    \/ \E p \in Sessions : Rerun(p)
    \/ \E p \in Sessions, job \in scope.jobs, status \in FeedStatuses,
          assignee \in scope.engineers, priority \in RespondPriorities :
            RespondSubmit(p, job, status, assignee, priority)
    \/ \E p \in Sessions : StartBody(p)
    \/ \E p \in Sessions : StartNotify(p)
    \/ \E p \in Sessions : StartExit(p)
    \/ \E p \in Sessions, job \in scope.jobs : ResolveClick(p, job)
    \/ \E p \in Sessions : ResolveBody(p)
    \/ \E p \in Sessions : ResolveNotify(p)
    \/ \E p \in Sessions : ResolveExit(p)
    \/ \E p \in Sessions : ConnectRaises(p)
    \/ \E p \in Sessions : RaiseExit(p)
    \/ \E p \in Sessions, job \in scope.jobs, priority \in EditPriorities :
            PrioritySubmit(p, job, priority)
    \/ \E p \in Sessions, job \in scope.jobs, status \in FeedStatuses :
            SlowCheck(p, job, status)
    \/ \E p \in Sessions : SlowInsert(p)

Spec == Init /\ [][Next]_vars

\* ============================================================ properties
\* what a session holds once log_incident_start has handed it an id
StartReturned(p) ==
    /\ op[p] = "respond"
    /\ pc[p] \in {"ls_exit", "done"}
    /\ incident_id[p] # -1

\* what a session holds once log_incident_resolve has returned
ResolveReturned(p) ==
    /\ op[p] = "resolve"
    /\ pc[p] \in {"lr_exit", "done"}

HasOpenRow(rows, id) ==
    \E i \in RowIdx(rows) : rows[i].incident_id = id /\ IsOpen(rows[i])

\* C1: in every reachable state each job_name has at most one incident
\* whose resolution_time is NULL
C1_OneOpenIncidentPerJob ==
    \A j \in Jobs : Cardinality(OpenRows(incidents, j)) <= 1

\* a job with a resolved incident and an open one, for which a further
\* log_incident_start has just found the open one
C1_Witness ==
    \E p \in Sessions, j \in Jobs :
        /\ pc[p] = "ls_exit"
        /\ arg[p].job = Some(j)
        /\ existing[p] # NULL
        /\ Cardinality(OpenRows(incidents, j)) = 1
        /\ \E i \in RowIdx(incidents) :
               incidents[i].job_name = Some(j) /\ ~IsOpen(incidents[i])

C3_NeverBothToldSuccess ==
    \A p, q \in Sessions :
        ( /\ p # q
          /\ op[p] = "respond" /\ op[q] = "respond"
          /\ arg[p].job = arg[q].job
          /\ arg[p].responder # arg[q].responder
          /\ incident_id[p] = incident_id[q] )
        => ~(msg[p].kind = "success" /\ msg[q].kind = "success")

\* C4: a respond action never changes the responder or response_start_time
\* of an open incident that has a responder; no step does, up to and
\* including the one that resolves it
C4_FirstClaimWins ==
    [][\A i \in RowIdx(incidents) :
          (IsOpen(incidents[i]) /\ incidents[i].responder_name # NULL)
          => /\ i \in RowIdx(incidents')
             /\ incidents'[i].incident_id = incidents[i].incident_id
             /\ incidents'[i].responder_name = incidents[i].responder_name
             /\ incidents'[i].response_start_time =
                    incidents[i].response_start_time]_vars

\* a second responder's log_incident_start has run against an incident
\* claimed by someone else, which still carries the first responder
C4_Witness ==
    \E p \in Sessions :
        /\ op[p] = "respond"
        /\ pc[p] = "done"
        /\ existing[p] # NULL
        /\ HasOpenRow(incidents, Val(existing[p]))
        /\ RowOf(incidents, Val(existing[p])).responder_name
               # arg[p].responder

C6_MinusOneWhenActiveExists ==
    \A p \in Sessions :
        ( /\ op[p] = "respond"
          /\ pc[p] \in {"ls_exit", "done"}
          /\ existing[p] # NULL )
        => incident_id[p] = -1

\* C7: log_incident_resolve on an incident that is already resolved returns
\* False and leaves the table as it is; on an open incident it either
\* returns True with the incident resolved, or raised and changed nothing
C7_SecondResolveIsNoOp ==
    [][\A p \in Sessions :
          (pc[p] = "lr_lock" /\ pc'[p] # "lr_lock")
          => IF HasOpenRow(incidents, Val(arg[p].incident_id))
             THEN \/ /\ resolved'[p]
                     /\ ~HasOpenRow(incidents', Val(arg[p].incident_id))
                  \/ /\ ~resolved'[p]
                     /\ incidents' = incidents
             ELSE /\ ~resolved'[p]
                  /\ incidents' = incidents]_vars

\* two calls for the same id have returned: one True, the other False
C7_Witness ==
    \E p, q \in Sessions :
        /\ ResolveReturned(p) /\ ResolveReturned(q)
        /\ arg[p].incident_id = arg[q].incident_id
        /\ resolved[p]
        /\ ~resolved[q]
        /\ ~HasOpenRow(incidents, Val(arg[p].incident_id))

\* C8: a resolution_time that is set is never changed and never NULL again
C8_ResolutionTimeImmutable ==
    [][\A i \in RowIdx(incidents) :
          incidents[i].resolution_time # NULL
          => /\ i \in RowIdx(incidents')
             /\ incidents'[i].incident_id = incidents[i].incident_id
             /\ incidents'[i].resolution_time =
                    incidents[i].resolution_time]_vars

\* a resolve attempted at a later time than the one the incident carries
C8_Witness ==
    \E p \in Sessions, i \in RowIdx(incidents) :
        /\ ResolveReturned(p)
        /\ pc[p] = "done"
        /\ arg[p].incident_id = Some(incidents[i].incident_id)
        /\ incidents[i].resolution_time # NULL
        /\ Val(incidents[i].resolution_time) < Val(t[p])

\* C9: the resolution_duration_seconds of a resolved incident is the number
\* of whole seconds in resolution_time - response_start_time
C9_DurationIsWholeSeconds ==
    \A i \in RowIdx(incidents) :
        incidents[i].resolution_time # NULL
        => /\ incidents[i].resolution_duration_seconds # NULL
           /\ incidents[i].response_start_time # NULL
           /\ LET d == Val(incidents[i].resolution_time)
                         - Val(incidents[i].response_start_time)
                  s == Val(incidents[i].resolution_duration_seconds)
              IN IF d >= 0
                 THEN s * TicksPerSecond <= d /\ d < (s + 1) * TicksPerSecond
                 ELSE s * TicksPerSecond >= d /\ d > (s - 1) * TicksPerSecond

\* an incident resolved a fraction of a second after a whole second
C9_Witness ==
    \E i \in RowIdx(incidents) :
        /\ incidents[i].resolution_time # NULL
        /\ Val(incidents[i].resolution_time)
             - Val(incidents[i].response_start_time) = 1
        /\ incidents[i].resolution_duration_seconds = Some(0)

\* C10: resolution_time is NULL exactly when resolution_duration_seconds
\* is, and every row carries all the fields its creation writes
C10_AllOrNothing ==
    \A i \in RowIdx(incidents) :
        /\ incidents[i].resolution_time = NULL
             <=> incidents[i].resolution_duration_seconds = NULL
        /\ incidents[i].job_name # NULL
        /\ incidents[i].status_at_incident # NULL
        /\ incidents[i].detection_time # NULL
        /\ incidents[i].response_start_time # NULL
        /\ incidents[i].responder_name # NULL
        /\ incidents[i].priority # NULL

\* the INSERT of check_slow_response has raised beside a resolved incident
C10_Witness ==
    \E p \in Sessions :
        /\ msg[p].kind = "slow_error"
        /\ arg[p] = NoArg
        /\ \E i \in RowIdx(incidents) : incidents[i].resolution_time # NULL

\* C11: a priority edit for an incident that is already resolved leaves the
\* incident's priority as it is
C11_NoPriorityEditAfterResolution ==
    [][\A i \in RowIdx(incidents) :
          incidents[i].resolution_time # NULL
          => /\ i \in RowIdx(incidents')
             /\ incidents'[i].priority = incidents[i].priority]_vars

\* C12: every step that writes to the incidents table is taken by the
\* session that holds db_lock
C12_WritesHoldLock ==
    [][incidents' # incidents
       => \E p \in Sessions : db_lock' = p /\ pc'[p] # pc[p]]_vars

\* C13: when the notification request of log_incident_start or
\* log_incident_resolve has raised, the row written before it is in the
\* table and the call returns the incident id, respectively True
C13_NotificationFailureKeepsChange ==
    \A p \in Sessions :
        api_err[p] =>
            /\ op[p] = "respond" =>
                   /\ incident_id[p] = Val(next_id[p])
                   /\ \E i \in RowIdx(incidents) :
                          /\ incidents[i].incident_id = incident_id[p]
                          /\ incidents[i].job_name = arg[p].job
                          /\ incidents[i].responder_name = arg[p].responder
            /\ op[p] = "resolve" =>
                   /\ resolved[p]
                   /\ \E i \in RowIdx(incidents) :
                          /\ incidents[i].incident_id =
                                 Val(arg[p].incident_id)
                          /\ incidents[i].resolution_time = t[p]
            /\ pc[p] = "done" =>
                   msg[p].kind = IF op[p] = "respond" THEN "success"
                                 ELSE "resolved"

\* both calls have returned to their callers after a notification that
\* raised
C13_Witness ==
    \E p, q \in Sessions :
        /\ api_err[p] /\ op[p] = "respond" /\ pc[p] = "done"
        /\ api_err[q] /\ op[q] = "resolve" /\ pc[q] = "done"

\* Thread scheduling: a session inside a db_utils call takes db_lock when it
\* is offered often enough and runs on to its return.  Nothing obliges the
\* notification request, sent without a timeout, to answer.
FairSpec ==
    /\ Spec
    /\ \A p \in Sessions :
           /\ SF_vars(StartBody(p))
           /\ WF_vars(StartExit(p))
           /\ SF_vars(ResolveBody(p))
           /\ WF_vars(ResolveExit(p))
           /\ WF_vars(RaiseExit(p))

\* C14: a call of log_incident_start or log_incident_resolve that waits for
\* db_lock eventually returns to its caller, whatever the notification
\* request of another call does
C14_WaitingCallCompletes ==
    \A q \in Sessions :
        (pc[q] \in {"ls_lock", "lr_lock"}) ~> (pc[q] = "done")

\* C15: incident ids are unique, the id of a row never changes, and a row
\* that is created gets an id greater than every id in the table
C15_IdsUniqueAndIncreasing ==
    [][/\ \A i, k \in RowIdx(incidents') :
              i # k => incidents'[i].incident_id # incidents'[k].incident_id
       /\ \A i \in RowIdx(incidents) :
              /\ i \in RowIdx(incidents')
              /\ incidents'[i].incident_id = incidents[i].incident_id
       /\ \A k \in RowIdx(incidents') \ RowIdx(incidents) :
              \A i \in RowIdx(incidents) :
                  incidents'[k].incident_id > incidents[i].incident_id]_vars

\* a second incident has just been inserted with the id computed for it
C15_Witness ==
    \E p \in Sessions :
        /\ pc[p] = "ls_notify"
        /\ Len(incidents) = 2
        /\ next_id[p] = Some(incidents[2].incident_id)
        /\ incidents[2].incident_id > incidents[1].incident_id

\* C16 as stated: no step removes a row, and every resolved incident is in
\* every result of the history query
C16_ResolvedAlwaysInHistory ==
    [][/\ \A i \in RowIdx(incidents) :
              /\ i \in RowIdx(incidents')
              /\ incidents'[i].incident_id = incidents[i].incident_id
       /\ \A limit \in HistoryLimits :
              \A S \in GetIncidentHistory(incidents', limit) :
                  \A i \in RowIdx(incidents') :
                      incidents'[i].resolution_time # NULL => i \in S]_vars

\* C16: no step removes a row, and a resolved incident is in every result
\* of the history query with a given limit as long as fewer than limit
\* other incidents have a response_start_time at or after its own
C16_RowsPersistHistoryLimited ==
    [][/\ \A i \in RowIdx(incidents) :
              /\ i \in RowIdx(incidents')
              /\ incidents'[i].incident_id = incidents[i].incident_id
       /\ \A limit \in HistoryLimits :
              \A i \in RowIdx(incidents') :
                  ( /\ incidents'[i].resolution_time # NULL
                    /\ Cardinality(
                         {k \in RowIdx(incidents') \ {i} :
                             Val(incidents'[k].response_start_time)
                               >= Val(incidents'[i].response_start_time)})
                         < limit )
                  => \A S \in GetIncidentHistory(incidents', limit) :
                         i \in S]_vars

\* a resolved incident beside a later one: the query returns it with limit
\* 2 and leaves it out with limit 1
C16_Witness ==
    /\ Len(incidents) = 2
    /\ incidents[1].resolution_time # NULL
    /\ Val(incidents[1].response_start_time)
           < Val(incidents[2].response_start_time)
    /\ GetIncidentHistory(incidents, 2) = {{1, 2}}
    /\ GetIncidentHistory(incidents, 1) = {{2}}

\* C17: a resolved incident stays resolved, and log_incident_start for a
\* job whose incidents are all resolved either raises and changes nothing
\* or appends an open incident with an id not used before, leaving every
\* earlier row as it was
C17_ResolvedTerminalJobReopens ==
    [][/\ \A i \in RowIdx(incidents) :
              incidents[i].resolution_time # NULL
              => /\ i \in RowIdx(incidents')
                 /\ incidents'[i].resolution_time # NULL
       /\ \A p \in Sessions :
              ( /\ pc[p] = "ls_lock"
                /\ pc'[p] # "ls_lock"
                /\ OpenRows(incidents, Val(arg[p].job)) = {} )
              => \/ /\ incident_id'[p] = -1
                    /\ incidents' = incidents
                 \/ /\ Len(incidents') = Len(incidents) + 1
                    /\ \A i \in RowIdx(incidents) :
                           incidents'[i] = incidents[i]
                    /\ LET new == incidents'[Len(incidents')]
                       IN /\ new.incident_id = incident_id'[p]
                          /\ new.incident_id \notin Ids(incidents)
                          /\ new.job_name = arg[p].job
                          /\ IsOpen(new)]_vars

\* the job's first incident is resolved and a second one, with another id,
\* has just been opened for it
C17_Witness ==
    \E p \in Sessions :
        /\ pc[p] = "ls_notify"
        /\ Len(incidents) = 2
        /\ incidents[1].job_name = incidents[2].job_name
        /\ ~IsOpen(incidents[1])
        /\ IsOpen(incidents[2])
        /\ incident_id[p] = incidents[2].incident_id
        /\ incidents[2].incident_id # incidents[1].incident_id

\* C18: a row is created only with status "Critical" or "Error" and only
\* for a job that has no open incident
C18_CreatedOnlyForUrgentJobs ==
    [][\A k \in RowIdx(incidents') \ RowIdx(incidents) :
          /\ incidents'[k].status_at_incident
                 \in {Some("Critical"), Some("Error")}
          /\ \A i \in RowIdx(incidents) :
                 incidents[i].job_name = incidents'[k].job_name
                 => ~IsOpen(incidents[i])]_vars

\* an incident has just been created for a Critical job while another
\* session has rendered a job in Warning
C18_Witness ==
    \E p, q \in Sessions :
        /\ pc[p] = "ls_notify"
        /\ arg[p].status = Some("Critical")
        /\ HasOpenRow(incidents, incident_id[p])
        /\ op[q] = "slow"
        /\ arg[q].status = Some("Warning")

\* The dashboard over a store that already holds an incident logged without a
\* responder (log_incident_start with responder None: responder_name is a
\* nullable column), watched at 0, FastSeconds and SlowSeconds after its
\* detection.
SlowScope ==
    [jobs |-> {"Job1"}, engineers |-> {"Alice"}, rows |-> MaxIncidents,
     clock |-> {0, FastSeconds * TicksPerSecond,
                SlowSeconds * TicksPerSecond}]

SlowInit ==
    /\ scope = SlowScope
    /\ incidents = <<Row(1, Some("Job1"), Some("Critical"), Some(0), Some(0),
                         NULL, Some(DEFAULT_PRIORITY))>>
    /\ db_lock = 0
    /\ now = 0
    /\ active_incidents = [p \in Sessions |-> NoView]
    /\ pc = [p \in Sessions |-> "render"]
    /\ op = [p \in Sessions |-> "none"]
    /\ arg = [p \in Sessions |-> NoArg]
    /\ t = [p \in Sessions |-> NULL]
    /\ existing = [p \in Sessions |-> NULL]
    /\ next_id = [p \in Sessions |-> NULL]
    /\ start_time_result = [p \in Sessions |-> NULL]
    /\ incident_id = [p \in Sessions |-> -1]
    /\ resolved = [p \in Sessions |-> FALSE]
    /\ is_slow = [p \in Sessions |-> FALSE]
    /\ api_err = [p \in Sessions |-> FALSE]
    /\ msg = [p \in Sessions |-> NoMsg]
    /\ NoPage
    /\ MockIdle

SlowSpec == SlowInit /\ [][Next]_vars

C20_ClaimedNeverFlagged ==
    [][\A p \in Sessions :
          (is_slow'[p] /\ ~is_slow[p])
          => \A i \in OpenRows(incidents, Val(arg'[p].job)) :
                 incidents[i].responder_name = NULL]_vars

MaxJobs == 3
RankNames == Jobs \cup {"Job3"}
RankStatuses ==
    {Some("Critical"), Some("Error"), Some("Warning"), Some("Log"),
     Some("Unknown"), NULL}
JobLists ==
    UNION {[1..n -> [name : RankNames, status : RankStatuses]] :
              n \in 0..MaxJobs}

\* STATUS_ORDER.get(x.get("status", "Log"), 99)
STATUS_ORDER(status) ==
    CASE status = "Critical" -> 0
      [] status = "Error" -> 1
      [] status = "Warning" -> 2
      [] status = "Log" -> 3
      [] OTHER -> 99
SortKey(job) ==
    STATUS_ORDER(IF job.status = NULL THEN "Log" ELSE Val(job.status))

\* a sort that keeps only the jobs whose status STATUS_ORDER knows
sortedRecognized(jobs) ==
    SelectSeq(jobs, LAMBDA x : SortKey(x) = 0)
        \o SelectSeq(jobs, LAMBDA x : SortKey(x) = 1)
        \o SelectSeq(jobs, LAMBDA x : SortKey(x) = 2)
        \o SelectSeq(jobs, LAMBDA x : SortKey(x) = 3)

\* sorted(non_responding_jobs, key=...): a stable sort, jobs of equal key
\* stay in the order they came in
sorted(jobs) ==
    SelectSeq(jobs, LAMBDA x : SortKey(x) = 0)
        \o SelectSeq(jobs, LAMBDA x : SortKey(x) = 1)
        \o SelectSeq(jobs, LAMBDA x : SortKey(x) = 2)
        \o SelectSeq(jobs, LAMBDA x : SortKey(x) = 3)
        \o SelectSeq(jobs, LAMBDA x : SortKey(x) = 99)

\* job_name in active_incidents
InActive(active, job_name) ==
    job_name \in DOMAIN active /\ active[job_name] # NULL

\* rank_jobs(jobs), active being what its get_active_incidents() returned
rank_jobs(jobs, active) ==
    IF jobs = NULL THEN <<>>
    ELSE LET responding_jobs ==
                 SelectSeq(Val(jobs), LAMBDA job : InActive(active, job.name))
             non_responding_jobs ==
                 SelectSeq(Val(jobs), LAMBDA job : ~InActive(active, job.name))
         IN responding_jobs \o sorted(non_responding_jobs)

\* tables the dashboard leaves behind: no incident, an open one for either
\* job or for both, a resolved one
RankRow(id, job) ==
    Row(id, Some(job), Some("Critical"), Some(0), Some(0), Some("Alice"),
        Some(DEFAULT_PRIORITY))
RankTables ==
    {<<>>,
     <<RankRow(1, "Job1")>>,
     <<RankRow(1, "Job2")>>,
     <<RankRow(1, "Job1"), RankRow(2, "Job2")>>,
     ResolveUpdate(<<RankRow(1, "Job1")>>, 1, 0, 0)}

\* no session is inside a handler
SessionsIdle ==
    /\ db_lock = 0
    /\ now = 0
    /\ active_incidents = [p \in Sessions |-> NoView]
    /\ pc = [p \in Sessions |-> "render"]
    /\ op = [p \in Sessions |-> "none"]
    /\ arg = [p \in Sessions |-> NoArg]
    /\ t = [p \in Sessions |-> NULL]
    /\ existing = [p \in Sessions |-> NULL]
    /\ next_id = [p \in Sessions |-> NULL]
    /\ start_time_result = [p \in Sessions |-> NULL]
    /\ incident_id = [p \in Sessions |-> -1]
    /\ resolved = [p \in Sessions |-> FALSE]
    /\ is_slow = [p \in Sessions |-> FALSE]
    /\ api_err = [p \in Sessions |-> FALSE]
    /\ msg = [p \in Sessions |-> NoMsg]

\* rank_jobs applied to a list of jobs, or to None, over one of the tables
RankInit ==
    /\ scope = [jobs |-> Jobs, engineers |-> Engineers,
                rows |-> MaxIncidents, clock |-> {0}]
    /\ incidents \in RankTables
    /\ SessionsIdle
    /\ api_jobs_raw \in {NULL} \cup {Some(jobs) : jobs \in JobLists}
    /\ ranked_jobs = NULL
    /\ NewSession
    /\ MockIdle

\* ranked_jobs = rank_jobs(api_jobs_raw); get_active_incidents() returns {}
\* when its query raises
RankJobs(fail) ==
    /\ ranked_jobs = NULL
    /\ ranked_jobs' = Some(rank_jobs(api_jobs_raw,
           IF fail THEN NoView ELSE GetActiveIncidents(incidents)))
    /\ UNCHANGED <<scope, mock, incidents, db_lock, now, active_incidents, pc,
                   locals, api_jobs_raw, page_pc, page_active_incidents,
                   page_msg, jobs_cache, last_fetched, session_state>>

RankNext == \E fail \in BOOLEAN : RankJobs(fail)

RankSpec == RankInit /\ [][RankNext]_vars

\* the order of job names the claim breaks ties by
NameRank(name) ==
    CASE name = "Job1" -> 1
      [] name = "Job2" -> 2
      [] OTHER -> 3

\* C22: rank_jobs, for jobs whose status is one of the four levels and with
\* the active incidents read from the table, returns the jobs that have an
\* open incident first, in their input order, and then the other jobs in
\* ascending order of severity rank, jobs of equal rank in the order of
\* their names
C22_OpenFirstThenSeverityThenName ==
    [][( /\ RankJobs(FALSE)
         /\ api_jobs_raw # NULL
         /\ \A i \in DOMAIN Val(api_jobs_raw) :
                Val(api_jobs_raw)[i].status
                    \in {Some("Critical"), Some("Error"), Some("Warning"),
                         Some("Log")} )
       => LET jobs == Val(api_jobs_raw)
              r == Val(ranked_jobs')
              IsOpenJob(job) == job.name \in Jobs
                                    /\ OpenRows(incidents, job.name) # {}
              first == SelectSeq(jobs, IsOpenJob)
              rest == SelectSeq(jobs, LAMBDA job : ~IsOpenJob(job))
          IN /\ Len(r) = Len(jobs)
             /\ SubSeq(r, 1, Len(first)) = first
             /\ \A x \in {rest[i] : i \in DOMAIN rest} :
                    Cardinality({i \in DOMAIN rest : rest[i] = x})
                      = Cardinality({i \in Len(first) + 1 .. Len(r) :
                                         r[i] = x})
             /\ \A i, k \in Len(first) + 1 .. Len(r) :
                    i < k =>
                        \/ SortKey(r[i]) < SortKey(r[k])
                        \/ /\ SortKey(r[i]) = SortKey(r[k])
                           /\ NameRank(r[i].name) <= NameRank(r[k].name)]_vars

\* ---------------------------------------------------- one script run
\* One browser session's run of app.py, statement by statement: the status
\* fetch, the active incidents, the ranking, check_for_updates, then the job
\* table with its buttons and forms.  The db_utils calls of this session are
\* single steps here, and the other sessions appear as the writes their
\* calls make to the table.
CACHE_TTL == 5
FORCE_REFRESH_SECONDS == 30
StaleSeconds == 31
ALL_ENGINEERS == <<"Alice", "Bob">>

PageScope ==
    [jobs |-> {"Job1"}, engineers |-> Engineers, rows |-> MaxIncidents - 1,
     clock |-> {0, FastSeconds * TicksPerSecond,
                StaleSeconds * TicksPerSecond}]

\* what the status API answers with status 200
PageFeeds ==
    {<<[name |-> "Job1", status |-> Some("Critical")]>>,
     <<[name |-> "Job1", status |-> Some("Warning")]>>}

sessions == <<db_lock, active_incidents, pc, locals>>

PageInit ==
    /\ scope = PageScope
    /\ incidents = <<>>
    /\ SessionsIdle
    /\ NoPage
    /\ MockIdle

\* fetch_job_status: the list the API answered, [] when the request raised,
\* timed out or was answered with another status than 200 (answer is NULL)
fetch_job_status(answer) == IF answer = NULL THEN <<>> ELSE Val(answer)

\* @st.cache_data(ttl=CACHE_TTL): an entry is served until it is ttl old
CacheHit(cache, time) ==
    /\ cache # NULL
    /\ time - Val(cache).time < CACHE_TTL * TicksPerSecond

\* api_jobs_raw = fetch_job_status(API_ENDPOINT): the cached value, or a
\* call whose return value, [] included, is cached
PageFetch ==
    /\ page_pc = "fetch"
    /\ page_pc' = "rank"
    /\ IF CacheHit(jobs_cache, now)
       THEN /\ api_jobs_raw' = Some(Val(jobs_cache).value)
            /\ UNCHANGED <<jobs_cache, last_fetched>>
       ELSE \E answer \in {NULL} \cup {Some(f) : f \in PageFeeds} :
              /\ api_jobs_raw' = Some(fetch_job_status(answer))
              /\ jobs_cache' = Some([value |-> fetch_job_status(answer),
                                     time |-> now])
              /\ last_fetched' =
                     IF answer = NULL THEN last_fetched ELSE answer
    /\ UNCHANGED <<scope, mock, incidents, now, sessions, ranked_jobs,
                   page_active_incidents, page_msg, session_state>>

\* active_incidents = get_cached_active_incidents(); ranked_jobs =
\* rank_jobs(api_jobs_raw), which reads get_active_incidents() itself; each
\* read gives {} when its query raises
PageRank ==
    /\ page_pc = "rank"
    /\ page_pc' = "check"
    /\ \E fail \in BOOLEAN :
         page_active_incidents' =
             IF fail THEN NoView ELSE GetActiveIncidents(incidents)
    /\ \E fail \in BOOLEAN :
         ranked_jobs' = Some(rank_jobs(api_jobs_raw,
             IF fail THEN NoView ELSE GetActiveIncidents(incidents)))
    /\ UNCHANGED <<scope, mock,
                   incidents, now, sessions, api_jobs_raw, page_msg,
                   jobs_cache, last_fetched, session_state>>

\* check_for_updates(): "changed" when the active incidents differ from
\* last_active_incidents, "forced" when more than 30 seconds have passed
\* since last_incident_update, else "no"
check_for_updates(current_active, current_time, last_active, last_update) ==
    IF current_active # last_active THEN "changed"
    ELSE IF current_time - last_update
                > FORCE_REFRESH_SECONDS * TicksPerSecond
    THEN "forced"
    ELSE "no"

\* if check_for_updates(): st.cache_data.clear(); st.rerun()
PageCheck ==
    /\ page_pc = "check"
    /\ \E fail \in BOOLEAN :
         LET current_active ==
                 IF fail THEN NoView ELSE GetActiveIncidents(incidents)
             result == check_for_updates(current_active, now,
                           last_active_incidents, last_incident_update)
         IN /\ IF result = "changed"
               THEN /\ last_incident_update' = now
                    /\ last_active_incidents' = current_active
               ELSE UNCHANGED <<last_incident_update, last_active_incidents>>
            /\ IF result = "no"
               THEN /\ page_pc' = "table"
                    /\ page_msg' =
                           IF Val(ranked_jobs) = <<>>
                           THEN [kind |-> "no_job_data", who |-> NULL]
                           ELSE NoMsg
                    /\ UNCHANGED jobs_cache
               ELSE /\ page_pc' = "fetch"
                    /\ page_msg' = [kind |-> result, who |-> NULL]
                    /\ jobs_cache' = NULL
    /\ UNCHANGED <<scope, mock, incidents, now, sessions, api_jobs_raw,
                   ranked_jobs, page_active_incidents, last_fetched,
                   show_respond_form, selected_priority, selected_assignee>>

\* log_incident_start as one step: the rows it leaves and the id it returns
LogIncidentStart(rows, job_name, status, responder, priority, start_time) ==
    LET found == SelectActive(rows, job_name)
        id == NextId(rows)
        row == Row(id, Some(job_name), Some(status), Some(start_time),
                   Some(start_time), Some(responder), Some(priority))
    IN IF found # NULL
       THEN [rows |-> StartExisting(rows, Val(found), Some(responder),
                                    Some(priority), Some(start_time)),
             incident_id |-> ExistingReturn(Val(found))]
       ELSE IF ConstraintsOK(rows, row)
       THEN [rows |-> Append(rows, row), incident_id |-> id]
       ELSE [rows |-> rows, incident_id |-> -1]

\* log_incident_resolve as one step: the rows it leaves and what it returns
LogIncidentResolve(rows, id, end_time) ==
    LET found == SelectForResolve(rows, id)
        start_time == rows[CHOOSE i \in found : TRUE].response_start_time
    IN IF found = {}
       THEN [rows |-> rows, resolved |-> FALSE]
       ELSE [rows |-> ResolveUpdate(rows, id, end_time,
                          Duration(end_time, Val(start_time))),
             resolved |-> TRUE]

\* the job table has a row for the job, with this status
Rendered(job_name, status) ==
    \E i \in DOMAIN Val(ranked_jobs) :
        /\ Val(ranked_jobs)[i].name = job_name
        /\ Val(ranked_jobs)[i].status = Some(status)

\* any(st.session_state.show_respond_form.values())
any_forms_open == \E j \in Jobs : show_respond_form[j]

\* "Respond Incident": the button of a Critical or Error job without an
\* entry in active_incidents whose form is not shown; the form state is set
\* and pre-populated, st.rerun()
PageRespondClick(job_name) ==
    /\ page_pc = "table"
    /\ \E status \in FeedStatuses :
         Rendered(job_name, status) /\ is_critical_or_error(status)
    /\ page_active_incidents[job_name] = NULL
    /\ ~show_respond_form[job_name]
    /\ show_respond_form' = [show_respond_form EXCEPT ![job_name] = TRUE]
    /\ selected_priority' =
           [selected_priority EXCEPT ![job_name] = Some(DEFAULT_PRIORITY)]
    /\ selected_assignee' =
           [selected_assignee EXCEPT ![job_name] = Some(ALL_ENGINEERS[1])]
    /\ page_pc' = "fetch"
    /\ page_msg' = NoMsg
    /\ UNCHANGED <<scope, mock, incidents, now, sessions, api_jobs_raw,
                   ranked_jobs, page_active_incidents, jobs_cache,
                   last_fetched, last_active_incidents,
                   last_incident_update>>

\* lines 1009-1019: "Reset form state regardless of success/failure"
ResetForm(job_name, priority, assignee) ==
    /\ show_respond_form' = [show_respond_form EXCEPT ![job_name] = FALSE]
    /\ selected_priority' =
           [selected_priority EXCEPT ![job_name] = Some(priority)]
    /\ selected_assignee' =
           [selected_assignee EXCEPT ![job_name] = Some(assignee)]

\* "Confirm Response" of the form that is shown: the re-check of
\* get_active_incidents() and the warning, or log_incident_start and then
\* st.success, st.cache_data.clear() and st.rerun(), or st.error; the lines
\* that reset the form state come after and run when st.rerun() has not
\* ended the run before them.  db is what the database does: "ok", "error"
\* (a statement raises, log_incident_start returns -1) or "raise"
\* (get_db_connection() raises, outside the try of log_incident_start).
PageConfirm(job_name, priority, assignee) ==
    /\ page_pc = "table"
    /\ page_active_incidents[job_name] = NULL
    /\ show_respond_form[job_name]
    /\ page_pc' = "fetch"
    /\ \E status \in FeedStatuses, fail \in BOOLEAN,
          db \in {"ok", "error", "raise"} :
         /\ Rendered(job_name, status)
         /\ is_critical_or_error(status)
         /\ LET current_active ==
                    IF fail THEN NoView ELSE GetActiveIncidents(incidents)
                r == LogIncidentStart(incidents, job_name, status, assignee,
                                      priority, now)
            IN IF current_active[job_name] # NULL
               THEN /\ page_msg' =
                           [kind |-> "warning",
                            who |-> Val(current_active[job_name]).responder]
                    /\ ResetForm(job_name, priority, assignee)
                    /\ UNCHANGED <<incidents, jobs_cache>>
               ELSE IF db = "raise"
               THEN /\ page_msg' = [kind |-> "exception", who |-> NULL]
                    /\ UNCHANGED <<incidents, jobs_cache, show_respond_form,
                                   selected_priority, selected_assignee>>
               ELSE IF db = "error" \/ r.incident_id = -1
               THEN /\ page_msg' = [kind |-> "error", who |-> NULL]
                    /\ ResetForm(job_name, priority, assignee)
                    /\ UNCHANGED <<incidents, jobs_cache>>
               ELSE /\ Len(r.rows) <= scope.rows
                    /\ incidents' = r.rows
                    /\ page_msg' = [kind |-> "success", who |-> Some(assignee)]
                    /\ jobs_cache' = NULL
                    /\ UNCHANGED <<show_respond_form, selected_priority,
                                   selected_assignee>>
    /\ UNCHANGED <<scope, mock, now, sessions, api_jobs_raw, ranked_jobs,
                   page_active_incidents, last_fetched,
                   last_active_incidents, last_incident_update>>

\* "Resolve Incident" of a job with an entry in active_incidents:
\* log_incident_resolve; on True the form state of the job is popped; then
\* st.rerun()
PageResolve(job_name) ==
    /\ page_pc = "table"
    /\ \E status \in FeedStatuses : Rendered(job_name, status)
    /\ page_active_incidents[job_name] # NULL
    /\ page_pc' = "fetch"
    /\ \E db \in {"ok", "error", "raise"} :
         LET r == LogIncidentResolve(incidents,
                      Val(page_active_incidents[job_name]).incident_id, now)
         IN IF db = "ok" /\ r.resolved
            THEN /\ incidents' = r.rows
                 /\ page_msg' = [kind |-> "resolved", who |-> NULL]
                 /\ show_respond_form' =
                        [show_respond_form EXCEPT ![job_name] = FALSE]
                 /\ selected_priority' =
                        [selected_priority EXCEPT ![job_name] = NULL]
                 /\ selected_assignee' =
                        [selected_assignee EXCEPT ![job_name] = NULL]
            ELSE /\ page_msg' =
                        [kind |-> IF db = "raise" THEN "exception"
                                  ELSE "resolve_failed",
                         who |-> NULL]
                 /\ UNCHANGED <<incidents, show_respond_form,
                                selected_priority, selected_assignee>>
    /\ UNCHANGED <<scope, mock, now, sessions, api_jobs_raw, ranked_jobs,
                   page_active_incidents, jobs_cache, last_fetched,
                   last_active_incidents, last_incident_update>>

\* the script reaches its end; the next run starts on the page's refresh
\* or on a widget
PageEnd ==
    /\ page_pc = "table"
    /\ page_pc' = "fetch"
    /\ UNCHANGED <<scope, mock, incidents, now, sessions, api_jobs_raw,
                   ranked_jobs, page_active_incidents, page_msg, jobs_cache,
                   last_fetched, session_state>>

\* another session's log_incident_start for a job without open incident
OtherStart(job_name, responder) ==
    /\ SelectActive(incidents, job_name) = NULL
    /\ Len(incidents) < scope.rows
    /\ incidents' = LogIncidentStart(incidents, job_name, "Critical",
                        responder, DEFAULT_PRIORITY, now).rows
    /\ UNCHANGED <<scope, mock, now, sessions, page>>

\* another session's log_incident_resolve of an open incident
OtherResolve(id) ==
    /\ HasOpenRow(incidents, id)
    /\ incidents' = LogIncidentResolve(incidents, id, now).rows
    /\ UNCHANGED <<scope, mock, now, sessions, page>>

PageNext ==
    \/ Tick
    \/ PageFetch
    \/ PageRank
    \/ PageCheck
    \/ \E job_name \in scope.jobs : PageRespondClick(job_name)
    \/ \E job_name \in scope.jobs,
          priority \in RespondPriorities \cup EditPriorities,
          assignee \in scope.engineers :
            PageConfirm(job_name, priority, assignee)
    \/ \E job_name \in scope.jobs : PageResolve(job_name)
    \/ PageEnd
    \/ \E job_name \in scope.jobs, responder \in scope.engineers :
            OtherStart(job_name, responder)
    \/ \E id \in Ids(incidents) : OtherResolve(id)

PageSpec == PageInit /\ [][PageNext]_vars

\* C23: once the status API has answered, every script run works on the
\* job list of its last answer, also when a later request fails
C23_KeepsLastKnownStatuses ==
    (page_pc # "fetch" /\ last_fetched # NULL)
    => api_jobs_raw = last_fetched

\* C24: a session whose log_incident_resolve ran on an incident that was
\* resolved already is not told that resolving failed
C24_SecondResolveNotAFailure ==
    [][\A p \in Sessions :
          ( /\ pc[p] = "lr_exit"
            /\ pc'[p] = "done"
            /\ ~resolved[p]
            /\ \E i \in RowIdx(incidents) :
                   /\ arg[p].incident_id = Some(incidents[i].incident_id)
                   /\ incidents[i].resolution_time # NULL )
          => msg'[p].kind # "resolve_failed"]_vars

C26_HistoryMostRecentFirst ==
    \A limit \in HistoryLimits :
        \A h \in HistoryFrames(incidents, limit) :
            /\ Len(h) <= limit
            /\ Len(incidents) <= limit => Len(h) = Len(incidents)
            /\ \A a, b \in DOMAIN h :
                   /\ a # b => h[a] # h[b]
                   /\ a < b =>
                        Val(incidents[h[b]].response_start_time)
                            <= Val(incidents[h[a]].response_start_time)
            /\ \A k \in RowIdx(incidents) \ {h[a] : a \in DOMAIN h} :
                   \A a \in DOMAIN h :
                       Val(incidents[k].response_start_time)
                           <= Val(incidents[h[a]].response_start_time)

\* an open incident that is more recent than a resolved one: limit 2 gives
\* both, the open one first, and limit 1 the open one only
C26_Witness ==
    /\ Len(incidents) = 2
    /\ ~IsOpen(incidents[1])
    /\ IsOpen(incidents[2])
    /\ HistoryFrames(incidents, 2) = {<<2, 1>>}
    /\ HistoryFrames(incidents, 1) = {<<2>>}

\* C27: a read of get_active_incidents (the one that starts a script run)
\* leaves the incidents table as it is and returns, keyed by job name,
\* exactly the incidents whose resolution_time is NULL at that instant
C27_ActiveReadExactAndPure ==
    [][\A p \in Sessions :
          Rerun(p) =>
              /\ incidents' = incidents
              /\ \A j \in Jobs :
                     IF OpenRows(incidents, j) = {}
                     THEN active_incidents'[p][j] = NULL
                     ELSE /\ active_incidents'[p][j] # NULL
                          /\ \E i \in OpenRows(incidents, j) :
                                 Val(active_incidents'[p][j])
                                     = Info(incidents[i])]_vars

\* C28: once a "Confirm Response" submission has been processed, whether
\* it ended in st.success, st.error or the warning that the job is already
\* handled, show_respond_form is False for the job and selected_priority
\* and selected_assignee hold the submitted values, so that the form no
\* longer counts in any_forms_open
C28_FormStateResetAfterSubmit ==
    [][\A job_name \in Jobs, assignee \in Engineers,
          priority \in RespondPriorities \cup EditPriorities :
          ( /\ PageConfirm(job_name, priority, assignee)
            /\ page_msg'.kind \in {"success", "error", "warning"} )
          => /\ ~show_respond_form'[job_name]
             /\ selected_priority'[job_name] = Some(priority)
             /\ selected_assignee'[job_name] = Some(assignee)
             /\ ~any_forms_open']_vars

\* C29: a call of log_incident_start for a job without open incident that
\* does not get through its INSERT returns -1, a call of
\* log_incident_resolve on an open incident that does not get through its
\* UPDATE returns False; both go on to their return statement and the
\* incidents table is as it was
C29_DatabaseFailureReturnsSentinel ==
    [][\A p \in Sessions :
          /\ ( /\ pc[p] = "ls_lock"
               /\ pc'[p] \notin {"ls_lock", "ls_notify"}
               /\ SelectActive(incidents, Val(arg[p].job)) = NULL )
             => /\ incidents' = incidents
                /\ pc'[p] = "ls_exit"
                /\ incident_id'[p] = -1
          /\ ( /\ pc[p] = "lr_lock"
               /\ pc'[p] \notin {"lr_lock", "lr_notify"}
               /\ SelectForResolve(incidents, Val(arg[p].incident_id)) # {} )
             => /\ incidents' = incidents
                /\ pc'[p] = "lr_exit"
                /\ ~resolved'[p]]_vars

\* Streamlit executes a script run statement by statement and starts the
\* next run as soon as st.rerun() has ended one: the fetch, the ranking and
\* the update check of a run are not postponed forever.  Nothing obliges
\* the user or the other sessions to act.
FairPageSpec ==
    /\ PageSpec
    /\ WF_vars(PageFetch)
    /\ WF_vars(PageRank)
    /\ WF_vars(PageCheck)

\* C30: after a refresh forced by the 30 seconds rule a following run gets
\* past check_for_updates and renders the job table, unless the update
\* check finds the active incidents changed
C30_ForcedRefreshReachesTable ==
    (page_msg.kind = "forced")
        ~> (page_pc = "table" \/ page_msg.kind = "changed")

\* ------------------------------------ the other operations under db_lock
\* init_db (called by every script run, app.py line 127), add_engineer,
\* remove_engineer, add_job_link and remove_job_link share one shape:
\* with db_lock: conn = get_db_connection(); try: the statements;
\* except Exception: print; finally: conn.close().  Their tables
\* (engineers, job_links) and the schema are not part of the state: no
\* statement of theirs reads or writes a row of incidents.
LockedWrites ==
    {"init_db", "add_engineer", "remove_engineer", "add_job_link",
     "remove_job_link"}

\* the call is made: init_db at the start of a run, the others by the
\* handler of a button of the run
LockedCall(p, name) ==
    /\ pc[p] \in (IF name = "init_db" THEN {"render", "done"} ELSE {"render"})
    /\ Fresh(p, name, NoArg, NULL, NoMsg)
    /\ pc' = [pc EXCEPT ![p] = "lk_lock"]
    /\ active_incidents' = [active_incidents EXCEPT ![p] = NoView]
    /\ UNCHANGED <<scope, mock, page, incidents, db_lock, now>>

\* with db_lock: the connection opens and the statements run, or one of
\* them raises and the except clause prints it (success stays False)
LockedBody(p) ==
    /\ pc[p] = "lk_lock"
    /\ LockFree(db_lock)
    /\ db_lock' = p
    /\ pc' = [pc EXCEPT ![p] = "lk_exit"]
    /\ \E fail \in BOOLEAN :
         msg' = [msg EXCEPT ![p] =
             [kind |-> IF fail THEN "write_failed" ELSE "write_ok",
              who |-> NULL]]
    /\ UNCHANGED <<scope, mock, page,
                   incidents, now, active_incidents, op, arg, t, existing,
                   next_id, start_time_result, incident_id, resolved,
                   is_slow, api_err>>

\* conn = get_db_connection() raises before the try, as in ConnectRaises
LockedConnectRaises(p) ==
    /\ pc[p] = "lk_lock"
    /\ LockFree(db_lock)
    /\ db_lock' = p
    /\ pc' = [pc EXCEPT ![p] = "raise"]
    /\ UNCHANGED <<scope, mock,
                   page, incidents, now, active_incidents, locals>>

\* finally: conn.close(); the with statement releases db_lock; return
LockedExit(p) ==
    /\ pc[p] = "lk_exit"
    /\ db_lock' = 0
    /\ pc' = [pc EXCEPT ![p] = "done"]
    /\ UNCHANGED <<scope, mock,
                   page, incidents, now, active_incidents, locals>>

LockNext ==
    \/ Next
    \/ \E p \in Sessions, name \in LockedWrites : LockedCall(p, name)
    \/ \E p \in Sessions : LockedBody(p)
    \/ \E p \in Sessions : LockedConnectRaises(p)
    \/ \E p \in Sessions : LockedExit(p)

\* one job and one engineer, two sessions, two instants of the clock: the
\* lock is contended whatever the rows are
LockScope ==
    [jobs |-> {"Job1"}, engineers |-> {"Alice"},
     rows |-> MaxIncidents - 1, clock |-> {0, FastSeconds * TicksPerSecond}]

LockInit ==
    /\ scope = LockScope
    /\ incidents = <<>>
    /\ SessionsIdle
    /\ NoPage
    /\ MockIdle

LockSpec == LockInit /\ [][LockNext]_vars

\* the positions of a session between taking db_lock and releasing it
InsideLock ==
    {"ls_notify", "ls_exit", "lr_notify", "lr_exit", "lk_exit", "raise"}

\* C31: db_lock is held only by a session that is inside the with block of
\* one of the operations that take it; a session whose operation has ended,
\* by a return or by an exception, does not hold it
C31_LockHeldOnlyInsideOperation ==
    /\ db_lock # 0 => pc[db_lock] \in InsideLock
    /\ \A p \in Sessions : pc[p] \notin InsideLock => db_lock # p

\* a call has ended with the exception of a connection that could not be
\* opened and another session has taken db_lock after it
C31_Witness ==
    \E p \in Sessions, q \in Sessions :
        /\ q # p
        /\ pc[p] = "done"
        /\ msg[p].kind = "exception"
        /\ op[p] \in LockedWrites \cup {"respond", "resolve"}
        /\ db_lock = q

\* ---------------------------------- log_incident_resolve with any id
\* log_incident_resolve takes whatever integer its caller passes: the id
\* of an incident that is open, of one that is resolved, or of none.  The
\* call reads end_time and then waits for db_lock like the one of the
\* dashboard.
CallIds == 1..(MaxIncidents + 1)

ResolveCall(p, id) ==
    /\ pc[p] = "render"
    /\ Fresh(p, "resolve", [NoArg EXCEPT !.incident_id = Some(id)],
             Some(now), NoMsg)
    /\ pc' = [pc EXCEPT ![p] = "lr_lock"]
    /\ active_incidents' = [active_incidents EXCEPT ![p] = NoView]
    /\ UNCHANGED <<scope, mock, page, incidents, db_lock, now>>

CallScope ==
    [jobs |-> {"Job1"}, engineers |-> {"Alice"},
     rows |-> MaxIncidents, clock |-> {0, FastSeconds * TicksPerSecond}]

CallInit ==
    /\ scope = CallScope
    /\ incidents = <<>>
    /\ SessionsIdle
    /\ NoPage
    /\ MockIdle

CallNext ==
    \/ Next
    \/ \E p \in Sessions, id \in CallIds : ResolveCall(p, id)

CallSpec == CallInit /\ [][CallNext]_vars

\* the columns log_incident_resolve does not write
SameButResolution(r, s) ==
    /\ r.incident_id = s.incident_id
    /\ r.job_name = s.job_name
    /\ r.status_at_incident = s.status_at_incident
    /\ r.detection_time = s.detection_time
    /\ r.response_start_time = s.response_start_time
    /\ r.responder_name = s.responder_name
    /\ r.priority = s.priority

\* C32: the statements of log_incident_resolve(id) leave every row with
\* another id as it is and every column of the row with that id other
\* than resolution_time and resolution_duration_seconds; with an id no row
\* has, the table stays as it is and the call returns False
C32_ResolveFrame ==
    [][\A p \in Sessions :
          /\ ( /\ pc[p] = "lr_lock"
               /\ pc'[p] # "lr_lock" )
             => LET id == Val(arg[p].incident_id)
                IN /\ Len(incidents') = Len(incidents)
                   /\ \A i \in RowIdx(incidents) :
                          IF incidents[i].incident_id = id
                          THEN SameButResolution(incidents'[i], incidents[i])
                          ELSE incidents'[i] = incidents[i]
                   /\ id \notin Ids(incidents)
                          => /\ incidents' = incidents
                             /\ ~resolved'[p]
          /\ ( /\ pc[p] = "lr_exit"
               /\ pc'[p] = "done"
               /\ Val(arg[p].incident_id) \notin Ids(incidents) )
             => msg'[p].kind = "resolve_failed"]_vars

\* log_incident_resolve has returned from a call with an id no row has,
\* while the table holds an open incident
C32_Witness ==
    \E p \in Sessions :
        /\ op[p] = "resolve"
        /\ pc[p] = "done"
        /\ msg[p].kind = "resolve_failed"
        /\ Val(arg[p].incident_id) \notin Ids(incidents)
        /\ \E i \in RowIdx(incidents) : IsOpen(incidents[i])

\* C33: of two incidents of one job, the one created later has a
\* response_start_time that is not earlier than the resolution_time of the
\* one created before it
C33_ResponseIntervalsDisjoint ==
    \A i \in RowIdx(incidents), j \in RowIdx(incidents) :
        ( /\ incidents[i].incident_id < incidents[j].incident_id
          /\ incidents[i].job_name = incidents[j].job_name
          /\ incidents[i].resolution_time # NULL )
        => Val(incidents[j].response_start_time)
               >= Val(incidents[i].resolution_time)

\* C34: the resolution_time of a resolved incident is not earlier than its
\* response_start_time and its resolution_duration_seconds is not
\* negative, also when log_incident_resolve was called with an id that got
\* its row while the call waited for db_lock
C34_ResolvedNotBeforeStarted ==
    \A i \in RowIdx(incidents) :
        incidents[i].resolution_time # NULL
        => /\ Val(incidents[i].resolution_time)
                  >= Val(incidents[i].response_start_time)
           /\ Val(incidents[i].resolution_duration_seconds) >= 0

\* how often a job dictionary occurs in a list
Occurrences(jobs, job) == Cardinality({i \in DOMAIN jobs : jobs[i] = job})

\* C35: what rank_jobs returns holds every job of its input as often as
\* the input does and nothing else, whatever incidents are open and also
\* for jobs without status or with a status STATUS_ORDER does not know;
\* for None it returns the empty list
C35_RankIsPermutation ==
    ranked_jobs # NULL
    => IF api_jobs_raw = NULL
       THEN Val(ranked_jobs) = <<>>
       ELSE /\ Len(Val(ranked_jobs)) = Len(Val(api_jobs_raw))
            /\ \A i \in DOMAIN Val(api_jobs_raw) :
                   Occurrences(Val(ranked_jobs), Val(api_jobs_raw)[i])
                       = Occurrences(Val(api_jobs_raw), Val(api_jobs_raw)[i])

\* rank_jobs has reordered a list that holds a job of an open incident, a
\* job without status and a job of unknown status
C35_Witness ==
    /\ ranked_jobs # NULL
    /\ api_jobs_raw # NULL
    /\ Val(ranked_jobs) # Val(api_jobs_raw)
    /\ \E i, j, k \in DOMAIN Val(api_jobs_raw) :
           /\ Val(api_jobs_raw)[i].status = NULL
           /\ Val(api_jobs_raw)[j].status = Some("Unknown")
           /\ InActive(GetActiveIncidents(incidents),
                       Val(api_jobs_raw)[k].name)

\* ============================================== api_mock.py, the feed mock
\* The Flask application is taken request by request: a handler runs from
\* its first statement to its return before the next request is looked at.
\* random.random() and random.choice() are choices of the step.
STATUS_CHOICES == {"Critical", "Error", "Warning", "Log"}
CriticalOrError == {"Critical", "Error"}

\* the job names of requests: the jobs of mock_jobs and one it does not hold
MockNames == Jobs \cup {"Job3"}
\* the <int:incident_id> of requests
MockIds == 1..MaxIncidents

MockInit ==
    /\ scope = [jobs |-> Jobs, engineers |-> Engineers,
                rows |-> MaxIncidents, clock |-> {0}]
    /\ incidents = <<>>
    /\ SessionsIdle
    /\ NoPage
    /\ mock_jobs \in [Jobs -> {MockJob(s, NULL) : s \in STATUS_CHOICES}]
    /\ mock_response = NULL

\* jsonify(...), status: what a handler returns
Response(code, message) == Some([code |-> code, message |-> message])

\* one round of the loop of get_job_status for a job: change is
\* random.random() < 0.15, heal is random.random() < 0.1, heal_status is
\* random.choice(["Warning", "Log"]), new_status is
\* random.choice(STATUS_CHOICES)
StatusChange(job, change, heal, heal_status, new_status) ==
    IF ~change THEN job
    ELSE IF /\ job.responding_incident_id # NULL
            /\ job.status \in CriticalOrError
    THEN IF heal THEN MockJob(heal_status, NULL) ELSE job
    ELSE IF new_status \notin CriticalOrError
    THEN MockJob(new_status, NULL)
    ELSE MockJob(new_status, job.responding_incident_id)

\* GET /api/job_status: the loop over mock_jobs, then the list of names and
\* statuses (the message stands for the list, which holds mock_jobs')
get_job_status ==
    /\ \E change \in [Jobs -> BOOLEAN], heal \in [Jobs -> BOOLEAN],
          heal_status \in [Jobs -> {"Warning", "Log"}],
          new_status \in [Jobs -> STATUS_CHOICES] :
            mock_jobs' = [j \in Jobs |->
                StatusChange(mock_jobs[j], change[j], heal[j],
                             heal_status[j], new_status[j])]
    /\ mock_response' = Response(200, "job list")
    /\ UNCHANGED <<scope, incidents, db_lock, now, active_incidents, pc,
                   locals, page>>

\* a start_response that leaves the status of the job as it finds it
StartKeepsStatus(status, choice) == status

\* if status not in ["Critical", "Error"]: status = random.choice([...])
StartStatus(status, choice) ==
    IF status \notin CriticalOrError THEN choice ELSE status

\* POST /api/mock/start_response/<job_name>/<int:incident_id>
mock_start_response(job_name, id) ==
    /\ IF job_name \in DOMAIN mock_jobs
       THEN /\ \E choice \in CriticalOrError :
                 mock_jobs' = [mock_jobs EXCEPT ![job_name] =
                     MockJob(StartStatus(@.status, choice),
                             Some(id))]
            /\ mock_response' = Response(200, "Mock response started")
       ELSE /\ mock_response' = Response(404, "Job not found")
            /\ UNCHANGED mock_jobs
    /\ UNCHANGED <<scope, incidents, db_lock, now, active_incidents, pc,
                   locals, page>>

\* a resolve_response that does not compare the incident id
ResolveMatchesAny(current, id) == current # NULL

\* mock_jobs[job_name]["responding_incident_id"] == incident_id
ResolveMatches(current, id) == current = Some(id)

\* POST /api/mock/resolve_response/<job_name>/<int:incident_id>; fixed is
\* random.random() < 0.8
mock_resolve_response(job_name, id) ==
    /\ IF /\ job_name \in DOMAIN mock_jobs
          /\ ResolveMatches(mock_jobs[job_name].responding_incident_id,
                            id)
       THEN /\ \E fixed \in BOOLEAN :
                 mock_jobs' = [mock_jobs EXCEPT ![job_name] =
                     MockJob(IF fixed THEN "Log" ELSE @.status, NULL)]
            /\ mock_response' = Response(200, "Mock response resolved")
       ELSE IF job_name \in DOMAIN mock_jobs
       THEN /\ mock_response' = Response(200,
                    "Mock incident ID mismatch or already resolved")
            /\ UNCHANGED mock_jobs
       ELSE /\ mock_response' = Response(404, "Job not found")
            /\ UNCHANGED mock_jobs
    /\ UNCHANGED <<scope, incidents, db_lock, now, active_incidents, pc,
                   locals, page>>

MockNext ==
    \/ get_job_status
    \/ \E job_name \in MockNames, id \in MockIds :
            mock_start_response(job_name, id)
    \/ \E job_name \in MockNames, id \in MockIds :
            mock_resolve_response(job_name, id)

MockSpec == MockInit /\ [][MockNext]_vars

\* C36: between requests, a job of the mock that has a
\* responding_incident_id has the status Critical or Error
C36_RespondingJobIsUrgent ==
    \A j \in DOMAIN mock_jobs :
        mock_jobs[j].responding_incident_id # NULL
        => mock_jobs[j].status \in CriticalOrError

\* start_response has been answered and a job of the mock carries a
\* responding_incident_id
C36_Witness ==
    /\ mock_response = Response(200, "Mock response started")
    /\ \E j \in DOMAIN mock_jobs :
           /\ mock_jobs[j].responding_incident_id # NULL
           /\ mock_jobs[j].status \in CriticalOrError

\* C37: mock_resolve_response clears the responding_incident_id of a job
\* only when the id of the request equals it; a request with another id
\* leaves mock_jobs as it is and is answered 200, a request for a job the
\* mock does not hold leaves mock_jobs as it is and is answered 404
C37_ResolveClearsOnlyOnMatch ==
    [][\A job_name \in MockNames, id \in MockIds :
          mock_resolve_response(job_name, id)
          => /\ \A j \in DOMAIN mock_jobs :
                    ( /\ mock_jobs[j].responding_incident_id # NULL
                      /\ mock_jobs'[j].responding_incident_id = NULL )
                    => /\ j = job_name
                       /\ mock_jobs[j].responding_incident_id = Some(id)
             /\ ( /\ job_name \in DOMAIN mock_jobs
                  /\ mock_jobs[job_name].responding_incident_id # Some(id) )
                => /\ mock_jobs' = mock_jobs
                   /\ Val(mock_response').code = 200
             /\ job_name \notin DOMAIN mock_jobs
                => /\ mock_jobs' = mock_jobs
                   /\ Val(mock_response').code = 404]_vars

\* a resolve request whose id did not match has been answered while a job
\* of the mock responds to an incident
C37_Witness ==
    /\ mock_response =
           Response(200, "Mock incident ID mismatch or already resolved")
    /\ \E j \in DOMAIN mock_jobs : mock_jobs[j].responding_incident_id # NULL

====
